---- MODULE Spec2Model ----
(***************************************************************************)
(* Bill Splitter (experiment/): the entity model (models.py), the          *)
(* InputCollector session (input_collector.py) and the BillCalculator      *)
(* (bill_calculator.py).                                                    *)
(*                                                                         *)
(* Strings are sequences of one-character strings.  A Python dict is the   *)
(* sequence of its values in insertion order; its keys are the names of    *)
(* those values.  A Python float is an exact rational n/d (d >= 1, lowest  *)
(* terms) or NaN: rounding of binary64 is not represented, -0.0 is 0.      *)
(***************************************************************************)
EXTENDS Integers, Sequences, FiniteSets, TLC

\* ------------------------------------------------------------------ bounds
MaxIndex == 3
MaxCalc == 2
MaxDishes == 2
MaxEaters == 2
MaxAdds == 4
MaxDelButtons == 4
MaxPending == 2

\* ------------------------------------------------------------------ inputs
\* Raw strings handed to add_dish / add_person as a name.
NameStrs ==
  { <<>>, <<" ", " ">>, <<"a">>, <<" ", "a", " ">>, <<"b">> }

\* Raw strings handed to add_dish as a price.
PriceStrs ==
  { <<>>, <<" ">>, <<"0">>, <<"-", "0">>, <<"1">>, <<" ", "1", " ">>,
    <<"-", "5">>, <<"x">>, <<"n", "a", "n">> }

\* Names handed to toggle_dish_selection.
ToggleStrs == { <<"a">>, <<"b">> }

Range(s) == { s[i] : i \in DOMAIN s }

\* ------------------------------------------------------------------ floats
Zero == [nan |-> FALSE, n |-> 0, d |-> 1]
NaN == [nan |-> TRUE, n |-> 0, d |-> 1]
FromInt(i) == [nan |-> FALSE, n |-> i, d |-> 1]

Abs(i) == IF i < 0 THEN -i ELSE i

RECURSIVE GCD(_, _)
GCD(a, b) == IF b = 0 THEN a ELSE GCD(b, a % b)

Norm(n, d) ==
  LET g == GCD(Abs(n), d) IN [nan |-> FALSE, n |-> n \div g, d |-> d \div g]

\* a + b
FAdd(a, b) ==
  IF a.nan \/ b.nan THEN NaN ELSE Norm(a.n * b.d + b.n * a.d, a.d * b.d)

\* a / k for an integer k >= 1
FDiv(a, k) == IF a.nan THEN NaN ELSE Norm(a.n, a.d * k)

\* a < b (False when either is NaN)
FLess(a, b) == ~a.nan /\ ~b.nan /\ a.n * b.d < b.n * a.d

\* a - b
FSub(a, b) ==
  IF a.nan \/ b.nan THEN NaN ELSE Norm(a.n * b.d - b.n * a.d, a.d * b.d)

\* abs(a)
FAbs(a) == IF a.nan THEN NaN ELSE [a EXCEPT !.n = Abs(a.n)]

\* a * k for an integer k
FMulInt(a, k) == IF a.nan THEN NaN ELSE Norm(a.n * k, a.d)

\* ------------------------------------------------------------------ strings
RECURSIVE LStrip(_)
LStrip(s) == IF s # <<>> /\ Head(s) = " " THEN LStrip(Tail(s)) ELSE s

RECURSIVE RStrip(_)
RStrip(s) ==
  IF s # <<>> /\ s[Len(s)] = " " THEN RStrip(SubSeq(s, 1, Len(s) - 1)) ELSE s

\* str.strip()
Strip(s) == RStrip(LStrip(s))

DigitSeq == <<"0", "1", "2", "3", "4", "5", "6", "7", "8", "9">>
Digits == Range(DigitSeq)
DigitVal(c) == (CHOOSE i \in DOMAIN DigitSeq : DigitSeq[i] = c) - 1

RECURSIVE DigitsValue(_, _)
DigitsValue(s, acc) ==
  IF s = <<>> THEN acc ELSE DigitsValue(Tail(s), 10 * acc + DigitVal(Head(s)))

\* float(s) for s over the characters of PriceStrs: an optional sign followed by
\* decimal digits or by "nan"; anything else raises ValueError (ok = FALSE).
ParseFloat(s) ==
  LET signed == s # <<>> /\ Head(s) \in {"-", "+"}
      body == IF signed THEN Tail(s) ELSE s
      neg == signed /\ Head(s) = "-"
  IN  IF body = <<"n", "a", "n">> THEN [ok |-> TRUE, val |-> NaN]
      ELSE IF body # <<>> /\ \A i \in DOMAIN body : body[i] \in Digits
        THEN [ok |-> TRUE,
              val |-> FromInt(IF neg THEN -DigitsValue(body, 0) ELSE DigitsValue(body, 0))]
      ELSE [ok |-> FALSE, val |-> Zero]

\* ------------------------------------------------------------------ models.py
\* Dish(name, price)
Dish(name, price) == [name |-> name, price |-> price, eaters |-> <<>>]

\* Person(name)
Person(name) == [name |-> Strip(name), total |-> Zero]

\* A plausible slip: the membership test is missing, the name is always appended.
add_eater_NoCheck(dish, person_name) == [dish EXCEPT !.eaters = Append(@, person_name)]

\* Dish.add_eater
add_eater(dish, person_name) ==
  IF person_name \notin Range(dish.eaters)
    THEN [dish EXCEPT !.eaters = Append(@, person_name)]
    ELSE dish

\* A plausible slip: every eater is charged the full price.
get_shared_price_NoSplit(dish) == IF Len(dish.eaters) = 0 THEN Zero ELSE dish.price

\* A plausible slip: the empty eater list is not tested before the division.
get_shared_price_NoGuard(dish) == FDiv(dish.price, Len(dish.eaters))

\* Dish.get_shared_price
get_shared_price(dish) ==
  IF Len(dish.eaters) = 0 THEN Zero ELSE FDiv(dish.price, Len(dish.eaters))

\* Person.add_to_total
add_to_total(person, amount) == [person EXCEPT !.total = FAdd(@, amount)]

\* The keys of a dict of dishes or of people.
Keys(d) == { d[i].name : i \in DOMAIN d }

\* The position of key k in dict d.
IndexOf(d, k) == CHOOSE i \in DOMAIN d : d[i].name = k

\* ------------------------------------------------------------------ state
VARIABLES
  dishes,                \* InputCollector.dishes
  people,                \* InputCollector.people
  current_person_index,  \* InputCollector.current_person_index
  selected_dishes,       \* InputCollector.selected_dishes
  last,                  \* the last call and what it returned
  calc_calls,            \* calculate_bills calls in a row, up to now
  added,                 \* the names handed to Dish.add_eater of dishes[1], in call order
  state,                 \* BillSplitterApp.state, UIManager.state
  dish_rects,            \* BillSplitterApp.dish_rects, UIManager.dish_rects
  step,                  \* BillApp.step
  menu,                  \* BillApp.menu
  bill_people,           \* BillApp.people
  bill_eaters,           \* BillApp.eaters
  buttons,               \* BillApp.buttons, <<>> while the attribute is not set
  del_buttons,           \* BillApp.del_buttons, <<>> while the attribute is not set
  person_buttons,        \* BillApp.person_buttons, <<>> while the attribute is not set
  pending,               \* events update has handled since the last draw (main)
  crash                  \* the exception that ended BillApp's main loop, "" if none

collectorVars ==
  <<dishes, people, current_person_index, selected_dishes, last, calc_calls>>

uiVars == <<state, dish_rects>>

billVars ==
  <<step, menu, bill_people, bill_eaters, buttons, del_buttons, person_buttons, crash, pending>>

vars == <<collectorVars, added, uiVars, billVars>>

\* What the calls on an InputCollector, on a Dish and on the two applications
\* leave alone.
othersOfCollector == <<added, uiVars, billVars>>
othersOfDish == <<uiVars, billVars>>
othersOfApp == <<added, billVars>>
othersOfBill == <<collectorVars, added, uiVars>>

\* BillApp.__init__
Bill_init ==
  /\ step = 0
  /\ menu = <<>>
  /\ bill_people = <<>>
  /\ bill_eaters = <<>>
  /\ buttons = <<>>
  /\ del_buttons = <<>>
  /\ person_buttons = <<>>
  /\ crash = ""
  /\ pending = 0

Returned(op, ret) == [op |-> op, ret |-> ret]

\* InputCollector.__init__
Init ==
  /\ dishes = <<>>
  /\ people = <<>>
  /\ current_person_index = 0
  /\ selected_dishes = <<>>
  /\ last = Returned("__init__", "None")
  /\ calc_calls = 0
  /\ added = <<>>
  /\ state = "MENU"
  /\ dish_rects = <<>>
  /\ Bill_init

\* ------------------------------------------------------------------ bill_calculator.py
\* calculate_bills, first loop: every total back to 0.0
reset_totals(ppl) == [i \in DOMAIN ppl |-> [ppl[i] EXCEPT !.total = Zero]]

\* A plausible slip: the loop over the eaters ends at the first name that is not a
\* key of people (a break, or an exception that is swallowed) instead of skipping it.
RECURSIVE AddShares_StopAtUnknown(_, _, _)
AddShares_StopAtUnknown(ppl, eaters, shared_price) ==
  IF eaters = <<>> \/ Head(eaters) \notin Keys(ppl) THEN ppl
  ELSE AddShares_StopAtUnknown(
         [ppl EXCEPT ![IndexOf(ppl, Head(eaters))] = add_to_total(@, shared_price)],
         Tail(eaters), shared_price)

\* calculate_bills, inner loop: shared_price to every eater that is a key of people
RECURSIVE AddShares(_, _, _)
AddShares(ppl, eaters, shared_price) ==
  IF eaters = <<>> THEN ppl
  ELSE LET eater_name == Head(eaters)
           next == IF eater_name \in Keys(ppl)
                     THEN [ppl EXCEPT ![IndexOf(ppl, eater_name)] =
                                        add_to_total(@, shared_price)]
                     ELSE ppl
       IN  AddShares(next, Tail(eaters), shared_price)

\* calculate_bills, outer loop over dish_iterator(dishes)
RECURSIVE CalcDishes(_, _)
CalcDishes(ppl, ds) ==
  IF ds = <<>> THEN ppl
  ELSE CalcDishes(AddShares(ppl, Head(ds).eaters, get_shared_price(Head(ds))), Tail(ds))

\* A plausible slip: the calculation is left out and the totals stay as they are.
calculate_bills_Skip(ds, ppl) == ppl

\* A plausible slip: the totals are not reset before the shares are added.
calculate_bills_NoReset(ds, ppl) == CalcDishes(ppl, ds)

\* BillCalculator.calculate_bills: the people dict it leaves behind
calculate_bills(ds, ppl) == CalcDishes(reset_totals(ppl), ds)

\* BillCalculator.get_total_bill: sum(dish.price for dish in dishes.values())
RECURSIVE get_total_bill(_)
get_total_bill(ds) ==
  IF ds = <<>> THEN Zero
  ELSE FAdd(get_total_bill(SubSeq(ds, 1, Len(ds) - 1)), ds[Len(ds)].price)

\* sum(person.total for person in people.values())
RECURSIVE total_paid(_)
total_paid(ppl) ==
  IF ppl = <<>> THEN Zero
  ELSE FAdd(total_paid(SubSeq(ppl, 1, Len(ppl) - 1)), ppl[Len(ppl)].total)

\* A plausible slip: the summary recomputes the totals instead of reading them.
get_bill_summary_Recalc(ds, ppl) ==
  <<[i \in DOMAIN ppl |-> <<ppl[i].name, calculate_bills(ds, ppl)[i].total>>],
    get_total_bill(ds)>>

\* BillCalculator.get_bill_summary: (person_amounts, total_bill)
get_bill_summary(ds, ppl) ==
  <<[i \in DOMAIN ppl |-> <<ppl[i].name, ppl[i].total>>], get_total_bill(ds)>>

\* The decimal digits of the natural number i.
RECURSIVE IntStr(_)
IntStr(i) ==
  IF i < 10 THEN <<DigitSeq[i + 1]>>
  ELSE IntStr(i \div 10) \o <<DigitSeq[(i % 10) + 1]>>

\* n / d rounded to the nearest integer, a tie to the even one.
RoundHalfEven(n, d) ==
  LET q == n \div d
      r == n % d
  IN  IF 2 * r < d THEN q
      ELSE IF 2 * r > d THEN q + 1
      ELSE IF q % 2 = 0 THEN q ELSE q + 1

\* f"{x:.2f}"
Fmt2(x) ==
  IF x.nan THEN <<"n", "a", "n">>
  ELSE LET cents == RoundHalfEven(Abs(x.n) * 100, x.d)
       IN  (IF x.n < 0 THEN <<"-">> ELSE <<>>)
             \o IntStr(cents \div 100)
             \o <<".", DigitSeq[((cents \div 10) % 10) + 1], DigitSeq[(cents % 10) + 1]>>

\* ', '.join(names)
RECURSIVE Join(_)
Join(names) ==
  IF names = <<>> THEN <<>>
  ELSE IF Len(names) = 1 THEN Head(names)
  ELSE Head(names) \o <<",", " ">> \o Join(Tail(names))

\* [dish.name for dish in dishes.values() if not dish.eaters]
RECURSIVE unassigned_dishes(_)
unassigned_dishes(ds) ==
  IF ds = <<>> THEN <<>>
  ELSE (IF Head(ds).eaters = <<>> THEN <<Head(ds).name>> ELSE <<>>)
         \o unassigned_dishes(Tail(ds))

\* The 0.01 that validate_bill_split compares the difference with.
Tolerance == Norm(1, 100)

\* The fixed texts of the error messages; a message is such a text followed by
\* the characters the f-string adds to it, and "" is <<>>.
NoDishesMsg == <<"No dishes have been added">>
NoPeopleMsg == <<"No people have been added">>
UnassignedMsg(names) == <<"Unassigned dishes: ">> \o Join(names)
MismatchMsg(bill, paid) ==
  <<"Total mismatch: Bill=">> \o Fmt2(bill) \o <<", Paid=">> \o Fmt2(paid)

\* A plausible slip: the people are tested before the dishes.
validate_bill_split_PeopleFirst(ds, ppl) ==
  IF ppl = <<>> THEN <<FALSE, NoPeopleMsg>>
  ELSE IF ds = <<>> THEN <<FALSE, NoDishesMsg>>
  ELSE IF unassigned_dishes(ds) # <<>>
    THEN <<FALSE, UnassignedMsg(unassigned_dishes(ds))>>
  ELSE IF FLess(Tolerance, FAbs(FSub(get_total_bill(ds), total_paid(ppl))))
    THEN <<FALSE, MismatchMsg(get_total_bill(ds), total_paid(ppl))>>
  ELSE <<TRUE, <<>>>>

\* BillCalculator.validate_bill_split: (is_valid, error_message)
validate_bill_split(ds, ppl) ==
  IF ds = <<>> THEN <<FALSE, NoDishesMsg>>
  ELSE IF ppl = <<>> THEN <<FALSE, NoPeopleMsg>>
  ELSE IF unassigned_dishes(ds) # <<>>
    THEN <<FALSE, UnassignedMsg(unassigned_dishes(ds))>>
  ELSE IF FLess(Tolerance, FAbs(FSub(get_total_bill(ds), total_paid(ppl))))
    THEN <<FALSE, MismatchMsg(get_total_bill(ds), total_paid(ppl))>>
  ELSE <<TRUE, <<>>>>

\* ------------------------------------------------------------------ input_collector.py
\* A plausible slip: an existing name is not rejected, dishes[name] is replaced.
add_dish_Overwrite(name, price_str) ==
  LET n == Strip(name)
      p == Strip(price_str)
      parsed == ParseFloat(p)
  IN  /\ IF n = <<>> \/ p = <<>> \/ ~parsed.ok \/ FLess(parsed.val, Zero)
           THEN /\ dishes' = dishes
                /\ last' = Returned("add_dish", "False")
           ELSE /\ dishes' = IF n \in Keys(dishes)
                               THEN [dishes EXCEPT ![IndexOf(dishes, n)] = Dish(n, parsed.val)]
                               ELSE Append(dishes, Dish(n, parsed.val))
                /\ last' = Returned("add_dish", "True")
      /\ calc_calls' = 0
      /\ UNCHANGED <<people, current_person_index, selected_dishes>>

\* InputCollector.add_dish
add_dish(name, price_str) ==
  LET n == Strip(name)
      p == Strip(price_str)
      parsed == ParseFloat(p)
  IN  /\ IF n = <<>> \/ p = <<>>
           THEN /\ dishes' = dishes
                /\ last' = Returned("add_dish", "False")
         ELSE IF n \in Keys(dishes)
           THEN /\ dishes' = dishes
                /\ last' = Returned("add_dish", "False")
         ELSE IF ~parsed.ok
           THEN /\ dishes' = dishes
                /\ last' = Returned("add_dish", "False")
         ELSE IF FLess(parsed.val, Zero)
           THEN /\ dishes' = dishes
                /\ last' = Returned("add_dish", "False")
         ELSE /\ dishes' = Append(dishes, Dish(n, parsed.val))
              /\ last' = Returned("add_dish", "True")
      /\ calc_calls' = 0
      /\ UNCHANGED <<people, current_person_index, selected_dishes>>

\* A plausible slip: a name already in people is not rejected.
add_person_NoDuplicateCheck(name) ==
  LET n == Strip(name)
  IN  /\ IF n = <<>>
           THEN /\ people' = people
                /\ last' = Returned("add_person", "False")
           ELSE /\ people' = Append(people, Person(n))
                /\ last' = Returned("add_person", "True")
      /\ calc_calls' = 0
      /\ UNCHANGED <<dishes, current_person_index, selected_dishes>>

\* InputCollector.add_person
add_person(name) ==
  LET n == Strip(name)
  IN  /\ IF n = <<>>
           THEN /\ people' = people
                /\ last' = Returned("add_person", "False")
         ELSE IF n \in Keys(people)
           THEN /\ people' = people
                /\ last' = Returned("add_person", "False")
         ELSE /\ people' = Append(people, Person(n))
              /\ last' = Returned("add_person", "True")
      /\ calc_calls' = 0
      /\ UNCHANGED <<dishes, current_person_index, selected_dishes>>

\* list.remove(x): the first occurrence of x goes
Remove(s, x) ==
  LET i == CHOOSE k \in DOMAIN s : s[k] = x /\ \A j \in 1..(k - 1) : s[j] # x
  IN  SubSeq(s, 1, i - 1) \o SubSeq(s, i + 1, Len(s))

\* A plausible slip: the membership test is missing, the name is always appended.
toggled_selection_NoCheck(sel, dish_name) == Append(sel, dish_name)

\* toggle_dish_selection: the list it leaves in selected_dishes
toggled_selection(sel, dish_name) ==
  IF dish_name \in Range(sel) THEN Remove(sel, dish_name) ELSE Append(sel, dish_name)

\* InputCollector.toggle_dish_selection
toggle_dish_selection(dish_name) ==
  /\ selected_dishes' = toggled_selection(selected_dishes, dish_name)
  /\ last' = Returned("toggle_dish_selection", "None")
  /\ calc_calls' = 0
  /\ UNCHANGED <<dishes, people, current_person_index>>

\* assign_selected_dishes_to_current_person, the loop over selected_dishes
RECURSIVE AssignTo(_, _, _)
AssignTo(ds, sel, person_name) ==
  IF sel = <<>> THEN ds
  ELSE LET dish_name == Head(sel)
           next == IF dish_name \in Keys(ds)
                     THEN [ds EXCEPT ![IndexOf(ds, dish_name)] = add_eater(@, person_name)]
                     ELSE ds
       IN  AssignTo(next, Tail(sel), person_name)

\* A plausible slip: the person is made an eater of every dish, selected or not.
assign_AllDishes(ds, ppl, idx, sel) ==
  IF idx < Len(ppl)
    THEN [i \in DOMAIN ds |-> add_eater(ds[i], ppl[idx + 1].name)]
    ELSE ds

\* InputCollector.assign_selected_dishes_to_current_person: the dishes it leaves
assign_selected_dishes_to_current_person(ds, ppl, idx, sel) ==
  IF idx < Len(ppl) THEN AssignTo(ds, sel, ppl[idx + 1].name) ELSE ds

\* InputCollector.get_current_person
get_current_person(ppl, idx) ==
  IF 0 <= idx /\ idx < Len(ppl) THEN ppl[idx + 1] ELSE "None"

\* A plausible slip: > where the code has >=.
is_last_person_Strict(ppl, idx) == idx > Len(ppl) - 1

\* InputCollector.is_last_person
is_last_person(ppl, idx) == idx >= Len(ppl) - 1

\* A plausible slip: the comparison that tells whether people remain is off by one.
advance_to_next_person_OffByOne ==
  /\ dishes' = assign_selected_dishes_to_current_person(
                 dishes, people, current_person_index, selected_dishes)
  /\ current_person_index' = current_person_index + 1
  /\ selected_dishes' = <<>>
  /\ last' = Returned("advance_to_next_person",
                      IF current_person_index' <= Len(people) THEN "True" ELSE "False")
  /\ calc_calls' = 0
  /\ UNCHANGED people

\* InputCollector.advance_to_next_person
advance_to_next_person ==
  /\ dishes' = assign_selected_dishes_to_current_person(
                 dishes, people, current_person_index, selected_dishes)
  /\ current_person_index' = current_person_index + 1
  /\ selected_dishes' = <<>>
  /\ last' = Returned("advance_to_next_person",
                      IF current_person_index' < Len(people) THEN "True" ELSE "False")
  /\ calc_calls' = 0
  /\ UNCHANGED people

\* A plausible slip: the working selection is not cleared.
reset_KeepSelection ==
  /\ dishes' = <<>>
  /\ people' = <<>>
  /\ current_person_index' = 0
  /\ last' = Returned("reset", "None")
  /\ calc_calls' = 0
  /\ UNCHANGED selected_dishes

\* InputCollector.reset
reset ==
  /\ dishes' = <<>>
  /\ people' = <<>>
  /\ current_person_index' = 0
  /\ selected_dishes' = <<>>
  /\ last' = Returned("reset", "None")
  /\ calc_calls' = 0

\* BillCalculator.calculate_bills(collector.dishes, collector.people)
CalculateBills ==
  /\ people' = calculate_bills(dishes, people)
  /\ last' = Returned("calculate_bills", "None")
  /\ calc_calls' = calc_calls + 1
  /\ UNCHANGED <<dishes, current_person_index, selected_dishes>>

\* ------------------------------------------------------------------ the session
Next ==
  \/ \E name \in NameStrs, price_str \in PriceStrs :
       add_dish(name, price_str) /\ UNCHANGED othersOfCollector
  \/ \E name \in NameStrs : add_person(name) /\ UNCHANGED othersOfCollector
  \/ \E dish_name \in ToggleStrs :
       toggle_dish_selection(dish_name) /\ UNCHANGED othersOfCollector
  \/ current_person_index < MaxIndex /\ advance_to_next_person
       /\ UNCHANGED othersOfCollector
  \/ calc_calls < MaxCalc /\ CalculateBills /\ UNCHANGED othersOfCollector
  \/ reset /\ UNCHANGED othersOfCollector

Spec == Init /\ [][Next]_vars

\* ------------------------------------------------------------------ calculate_bills on its own
\* BillCalculator.calculate_bills is a static method over any two dicts: the
\* collections below are built with Dish(...), Dish.add_eater and Person(...),
\* the eaters need not be keys of people and the totals need not be 0.
CalcPersonNames == { <<"a">>, <<"b">> }
CalcEaterNames == CalcPersonNames \cup { <<"z">> }
CalcPrices == { FromInt(1), FromInt(3), NaN }
CalcTotals == { Zero, FromInt(7) }

\* The sequences over S of at most k elements, none twice.
DupFreeSeqs(S, k) ==
  UNION { { q \in [1..n -> S] : \A i, j \in 1..n : q[i] = q[j] => i = j } : n \in 0..k }

\* The name of the i-th dish: "d", "dd", ...
DishName(i) == [j \in 1..i |-> "d"]

CalcInit ==
  /\ \E n \in 0..MaxDishes :
       \E price \in [1..n -> CalcPrices] :
         \E eaters \in [1..n -> DupFreeSeqs(CalcEaterNames, MaxEaters)] :
           dishes = [i \in 1..n |->
                       [name |-> DishName(i), price |-> price[i], eaters |-> eaters[i]]]
  /\ \E names \in DupFreeSeqs(CalcPersonNames, Cardinality(CalcPersonNames)) :
       \E total \in [DOMAIN names -> CalcTotals] :
         people = [i \in DOMAIN names |-> [name |-> names[i], total |-> total[i]]]
  /\ current_person_index = 0
  /\ selected_dishes = <<>>
  /\ last = Returned("__init__", "None")
  /\ calc_calls = 0
  /\ added = <<>>
  /\ state = "MENU"
  /\ dish_rects = <<>>
  /\ Bill_init

\* BillCalculator.validate_bill_split(dishes, people)
ValidateBillSplit ==
  /\ last' = Returned("validate_bill_split", validate_bill_split(dishes, people))
  /\ UNCHANGED <<dishes, people, current_person_index, selected_dishes, calc_calls>>

\* BillCalculator.get_bill_summary(dishes, people)
GetBillSummary ==
  /\ last' = Returned("get_bill_summary", get_bill_summary(dishes, people))
  /\ UNCHANGED <<dishes, people, current_person_index, selected_dishes, calc_calls>>

CalcNext ==
  \/ calc_calls < MaxCalc /\ CalculateBills /\ UNCHANGED othersOfCollector
  \/ ValidateBillSplit /\ UNCHANGED othersOfCollector
  \/ GetBillSummary /\ UNCHANGED othersOfCollector

CalcSpec == CalcInit /\ [][CalcNext]_vars

\* ------------------------------------------------------------------ a meal of two dishes and two people
\* The collector and the calculator driven with the names and prices of one
\* meal, in any order and any number of times.
PadThai == <<"P", "a", "d", " ", "T", "h", "a", "i">>
TomYum == <<"T", "o", "m", " ", "Y", "u", "m">>
Alice == <<"A", "l", "i", "c", "e">>
Bob == <<"B", "o", "b">>

MealDishNames == { PadThai, TomYum }
MealPriceStrs == { <<"1", "2", "0">>, <<"9", "0">> }
MealPeople == { Alice, Bob }

MealNext ==
  \/ \E name \in MealDishNames, price_str \in MealPriceStrs :
       add_dish(name, price_str) /\ UNCHANGED othersOfCollector
  \/ \E name \in MealPeople : add_person(name) /\ UNCHANGED othersOfCollector
  \/ \E dish_name \in MealDishNames :
       toggle_dish_selection(dish_name) /\ UNCHANGED othersOfCollector
  \/ current_person_index < MaxIndex /\ advance_to_next_person
       /\ UNCHANGED othersOfCollector
  \/ calc_calls < MaxCalc /\ CalculateBills /\ UNCHANGED othersOfCollector
  \/ ValidateBillSplit /\ UNCHANGED othersOfCollector

MealSpec == Init /\ [][MealNext]_vars

\* ------------------------------------------------------------------ the assignment on its own
\* A collector with two dishes and one to three people, at the start of the
\* assignment: only toggle_dish_selection and advance_to_next_person are
\* called, so people is never changed.
AssignPersonNames == { <<"a">>, <<"b">>, <<"c">> }

AssignInit ==
  /\ dishes = <<Dish(<<"a">>, FromInt(1)), Dish(<<"b">>, FromInt(1))>>
  /\ \E names \in DupFreeSeqs(AssignPersonNames, Cardinality(AssignPersonNames)) :
       /\ names # <<>>
       /\ people = [i \in DOMAIN names |-> Person(names[i])]
  /\ current_person_index = 0
  /\ selected_dishes = <<>>
  /\ last = Returned("__init__", "None")
  /\ calc_calls = 0
  /\ added = <<>>
  /\ state = "MENU"
  /\ dish_rects = <<>>
  /\ Bill_init

AssignNext ==
  \/ \E dish_name \in ToggleStrs :
       toggle_dish_selection(dish_name) /\ UNCHANGED othersOfCollector
  \/ current_person_index < MaxIndex /\ advance_to_next_person
       /\ UNCHANGED othersOfCollector

AssignSpec == AssignInit /\ [][AssignNext]_vars

\* ------------------------------------------------------------------ a Dish on its own
\* One Dish(name, price), Dish.add_eater called on it with any names, in any
\* order and any number of times up to MaxAdds, and Dish.get_shared_price.
EaterArgNames == CalcEaterNames \cup { <<"c">> }

EaterInit ==
  /\ \E price \in CalcPrices : dishes = <<Dish(DishName(1), price)>>
  /\ people = <<>>
  /\ current_person_index = 0
  /\ selected_dishes = <<>>
  /\ last = Returned("__init__", "None")
  /\ calc_calls = 0
  /\ added = <<>>
  /\ state = "MENU"
  /\ dish_rects = <<>>
  /\ Bill_init

\* dishes[1].add_eater(person_name)
AddEater(person_name) ==
  /\ dishes' = [dishes EXCEPT ![1] = add_eater(@, person_name)]
  /\ added' = Append(added, person_name)
  /\ last' = Returned("add_eater", "None")
  /\ UNCHANGED <<people, current_person_index, selected_dishes, calc_calls>>

\* dishes[1].get_shared_price()
GetSharedPrice ==
  /\ last' = Returned("get_shared_price", get_shared_price(dishes[1]))
  /\ UNCHANGED <<dishes, people, current_person_index, selected_dishes, calc_calls,
                 added>>

EaterNext ==
  \/ \E person_name \in EaterArgNames :
       Len(added) < MaxAdds /\ AddEater(person_name) /\ UNCHANGED othersOfDish
  \/ GetSharedPrice /\ UNCHANGED othersOfDish

EaterSpec == EaterInit /\ [][EaterNext]_vars

\* ------------------------------------------------------------------ widgets
\* pygame.Rect(x, y, w, h) and Rect.collidepoint(pos)
Rect(x, y, w, h) == [x |-> x, y |-> y, w |-> w, h |-> h]

collidepoint(rect, pos) ==
  /\ rect.x <= pos[1] /\ pos[1] < rect.x + rect.w
  /\ rect.y <= pos[2] /\ pos[2] < rect.y + rect.h

\* A position inside rect.
Centre(rect) == <<rect.x + rect.w \div 2, rect.y + rect.h \div 2>>

\* The buttons of setup_ui (BillSplitterApp) and _setup_ui_components (UIManager),
\* which place them alike.
start_button == Rect(300, 300, 300, 60)
add_dish_button == Rect(720, 200, 150, 50)
add_person_button == Rect(670, 200, 200, 50)
next_button == Rect(650, 600, 200, 60)
back_button == Rect(50, 600, 200, 60)
restart_button == Rect(300, 600, 300, 60)

\* The clickable area of the i-th dish (from 0) of the assignment screen.
dish_rect(i) == Rect(50, 170 + 50 * i, 800, 40)

\* Where MOUSEBUTTONDOWN events arrive: inside every button, inside the first
\* dish areas, and on nothing.
ClickPoints ==
  { Centre(b) : b \in { start_button, add_dish_button, add_person_button,
                        next_button, back_button, restart_button } }
    \cup { Centre(dish_rect(i)) : i \in 0..1 }
    \cup { <<0, 0>> }

\* What the input boxes hold when a click arrives: the name boxes take any
\* printable character, the price box digits and "." only (numeric_only).
BoxNameStrs == { <<>>, <<"a">>, <<" ", "b">> }
BoxPriceStrs == { <<>>, <<"0">>, <<"1">>, <<".">> }

\* dish_rects[name] = rect on a dict kept as a sequence of [name, rect].
PutRect(rects, name, rect) ==
  IF name \in Keys(rects)
    THEN [rects EXCEPT ![IndexOf(rects, name)].rect = rect]
    ELSE Append(rects, [name |-> name, rect |-> rect])

\* for dish_name, rect in self.dish_rects.items(): a hit flips dish_name in sel.
RECURSIVE ToggleHits(_, _, _)
ToggleHits(rects, pos, sel) ==
  IF rects = <<>> THEN sel
  ELSE LET dish_name == Head(rects).name
           next == IF collidepoint(Head(rects).rect, pos)
                     THEN IF dish_name \in Range(sel)
                            THEN Remove(sel, dish_name)
                            ELSE Append(sel, dish_name)
                     ELSE sel
       IN  ToggleHits(Tail(rects), pos, next)

\* ------------------------------------------------------------------ final_claude.py, first BillSplitterApp
\* BillSplitterApp.add_dish: the dishes it leaves
App_add_dish(ds, name_text, price_text) ==
  LET name == Strip(name_text)
      price_str == Strip(price_text)
      parsed == ParseFloat(price_str)
  IN  IF name = <<>> THEN ds
      ELSE IF name \in Keys(ds) THEN ds
      ELSE IF price_str = <<>> THEN ds
      ELSE IF ~parsed.ok THEN ds
      ELSE IF FLess(parsed.val, Zero) THEN ds
      ELSE Append(ds, Dish(name, parsed.val))

\* BillSplitterApp.add_person: the people it leaves
App_add_person(ppl, name_text) ==
  LET name == Strip(name_text)
  IN  IF name = <<>> THEN ppl
      ELSE IF name \in Keys(ppl) THEN ppl
      ELSE Append(ppl, Person(name))

\* Person.add_to_total of final_claude.py: a negative amount is not added
App_add_to_total(person, amount) ==
  IF FLess(amount, Zero) THEN person ELSE add_to_total(person, amount)

\* BillSplitterApp.calculate_bills, inner loop
RECURSIVE App_AddShares(_, _, _)
App_AddShares(ppl, eaters, shared_price) ==
  IF eaters = <<>> THEN ppl
  ELSE LET eater_name == Head(eaters)
           next == IF eater_name \in Keys(ppl)
                     THEN [ppl EXCEPT ![IndexOf(ppl, eater_name)] =
                                        App_add_to_total(@, shared_price)]
                     ELSE ppl
       IN  App_AddShares(next, Tail(eaters), shared_price)

\* BillSplitterApp.calculate_bills, outer loop over dish_iterator(self.dishes)
RECURSIVE App_CalcDishes(_, _)
App_CalcDishes(ppl, ds) ==
  IF ds = <<>> THEN ppl
  ELSE App_CalcDishes(
         IF Head(ds).eaters # <<>>
           THEN App_AddShares(ppl, Head(ds).eaters, get_shared_price(Head(ds)))
           ELSE ppl,
         Tail(ds))

\* BillSplitterApp.calculate_bills: the people it leaves
App_calculate_bills(ds, ppl) == App_CalcDishes(reset_totals(ppl), ds)

\* draw_assign_orders_screen, the loop that stores the dish areas: entries of
\* dish_rects are added or replaced, never removed, and the loop ends once
\* y_pos is over 550.
RECURSIVE App_StoreRects(_, _, _)
App_StoreRects(rects, ds, i) ==
  IF ds = <<>> \/ dish_rect(i).y > 550 THEN rects
  ELSE App_StoreRects(PutRect(rects, Head(ds).name, dish_rect(i)), Tail(ds), i + 1)

\* A plausible slip: a Back on the first person moves the index below 0.
App_Back_NoFloor(st, idx, sel) ==
  [state |-> st, index |-> idx - 1, selected |-> <<>>]

\* handle_events, ASSIGN_ORDERS, a hit of back_button: the state, the index and
\* the selection it leaves
App_Back(st, idx, sel) ==
  IF idx > 0
    THEN [state |-> st, index |-> idx - 1, selected |-> <<>>]
    ELSE [state |-> "ADD_PEOPLE", index |-> idx, selected |-> sel]

\* handle_events, one event in state MENU
App_Menu(pos) ==
  /\ state = "MENU"
  /\ state' = IF collidepoint(start_button, pos) THEN "ADD_DISHES" ELSE state
  /\ last' = Returned("handle_events", "None")
  /\ UNCHANGED <<dishes, people, current_person_index, selected_dishes, calc_calls,
                 dish_rects>>

\* handle_events, one event in state ADD_DISHES
App_AddDishes(pos, name_text, price_text) ==
  /\ state = "ADD_DISHES"
  /\ dishes' = IF collidepoint(add_dish_button, pos)
                 THEN App_add_dish(dishes, name_text, price_text)
                 ELSE dishes
  /\ LET st == IF collidepoint(next_button, pos) /\ Len(dishes') > 0
                 THEN "ADD_PEOPLE" ELSE state
     IN  state' = IF collidepoint(back_button, pos) THEN "MENU" ELSE st
  /\ last' = Returned("handle_events", "None")
  /\ UNCHANGED <<people, current_person_index, selected_dishes, calc_calls, dish_rects>>

\* handle_events, one event in state ADD_PEOPLE
App_AddPeople(pos, name_text) ==
  /\ state = "ADD_PEOPLE"
  /\ people' = IF collidepoint(add_person_button, pos)
                 THEN App_add_person(people, name_text)
                 ELSE people
  /\ LET go == collidepoint(next_button, pos) /\ Len(people') > 0
         st == IF go THEN "ASSIGN_ORDERS" ELSE state
     IN  /\ state' = IF collidepoint(back_button, pos) THEN "ADD_DISHES" ELSE st
         /\ current_person_index' = IF go THEN 0 ELSE current_person_index
         /\ selected_dishes' = IF go THEN <<>> ELSE selected_dishes
  /\ last' = Returned("handle_events", "None")
  /\ UNCHANGED <<dishes, calc_calls, dish_rects>>

\* handle_events, one event in state ASSIGN_ORDERS: the dish areas, then
\* next_button, then back_button
App_AssignOrders(pos) ==
  /\ state = "ASSIGN_ORDERS"
  /\ LET sel1 == ToggleHits(dish_rects, pos, selected_dishes)
         go == collidepoint(next_button, pos)
         ds2 == IF go
                  THEN assign_selected_dishes_to_current_person(
                         dishes, people, current_person_index, sel1)
                  ELSE dishes
         idx2 == IF go THEN current_person_index + 1 ELSE current_person_index
         sel2 == IF go THEN <<>> ELSE sel1
         done == go /\ idx2 >= Len(people)
         st2 == IF done THEN "RESULTS" ELSE state
         after == IF collidepoint(back_button, pos)
                    THEN App_Back(st2, idx2, sel2)
                    ELSE [state |-> st2, index |-> idx2, selected |-> sel2]
     IN  /\ dishes' = ds2
         /\ people' = IF done THEN App_calculate_bills(ds2, people) ELSE people
         /\ state' = after.state
         /\ current_person_index' = after.index
         /\ selected_dishes' = after.selected
  /\ last' = Returned("handle_events", "None")
  /\ UNCHANGED <<calc_calls, dish_rects>>

\* handle_events, one event in state RESULTS: restart_button runs __init__
\* again, which leaves the dish_rects attribute as it is
App_Results(pos) ==
  /\ state = "RESULTS"
  /\ IF collidepoint(restart_button, pos)
       THEN /\ dishes' = <<>>
            /\ people' = <<>>
            /\ current_person_index' = 0
            /\ selected_dishes' = <<>>
            /\ state' = "MENU"
       ELSE UNCHANGED <<dishes, people, current_person_index, selected_dishes, state>>
  /\ last' = Returned("handle_events", "None")
  /\ UNCHANGED <<calc_calls, dish_rects>>

\* draw in state ASSIGN_ORDERS (draw_assign_orders_screen); the other screens
\* change nothing
App_Draw ==
  /\ state = "ASSIGN_ORDERS"
  /\ IF people = <<>>
       THEN UNCHANGED <<people, state, dish_rects>>
     ELSE IF current_person_index >= Len(people)
       THEN /\ state' = "RESULTS"
            /\ people' = App_calculate_bills(dishes, people)
            /\ UNCHANGED dish_rects
     ELSE /\ dish_rects' = App_StoreRects(dish_rects, dishes, 0)
          /\ UNCHANGED <<people, state>>
  /\ last' = Returned("draw", "None")
  /\ UNCHANGED <<dishes, current_person_index, selected_dishes, calc_calls>>

AppNext ==
  \/ \E pos \in ClickPoints : App_Menu(pos) /\ UNCHANGED othersOfApp
  \/ \E pos \in ClickPoints, name_text \in BoxNameStrs, price_text \in BoxPriceStrs :
       App_AddDishes(pos, name_text, price_text) /\ UNCHANGED othersOfApp
  \/ \E pos \in ClickPoints, name_text \in BoxNameStrs :
       App_AddPeople(pos, name_text) /\ UNCHANGED othersOfApp
  \/ \E pos \in ClickPoints : App_AssignOrders(pos) /\ UNCHANGED othersOfApp
  \/ \E pos \in ClickPoints : App_Results(pos) /\ UNCHANGED othersOfApp
  \/ App_Draw /\ UNCHANGED othersOfApp

AppSpec == Init /\ [][AppNext]_vars

\* ------------------------------------------------------------------ ui_manager.py
\* InputCollector.get_current_person is not None
has_current_person(ppl, idx) == 0 <= idx /\ idx < Len(ppl)

\* InputCollector.has_dishes
has_dishes(ds) == Len(ds) > 0

\* A plausible slip: the add-people screen is left without a person.
has_people_Always(ppl) == TRUE

\* InputCollector.has_people
has_people(ppl) == Len(ppl) > 0

\* _draw_assign_orders_screen: dish_rects rebuilt, one area for every dish
UI_StoreRects(ds) ==
  [i \in DOMAIN ds |-> [name |-> ds[i].name, rect |-> dish_rect(i - 1)]]

\* _handle_menu_events
UI_Menu(pos) ==
  /\ state = "MENU"
  /\ state' = IF collidepoint(start_button, pos) THEN "ADD_DISHES" ELSE state
  /\ last' = Returned("_handle_menu_events", "None")
  /\ UNCHANGED <<dishes, people, current_person_index, selected_dishes, calc_calls,
                 dish_rects>>

\* _handle_add_dishes_events: add_dish_button, then next_button, then
\* back_button (no position is inside two of them)
UI_AddDishes(pos, name_text, price_text) ==
  /\ state = "ADD_DISHES"
  /\ IF collidepoint(add_dish_button, pos)
       THEN add_dish(name_text, price_text)
       ELSE /\ last' = Returned("_handle_add_dishes_events", "None")
            /\ UNCHANGED <<dishes, people, current_person_index, selected_dishes,
                           calc_calls>>
  /\ LET st == IF collidepoint(next_button, pos) /\ has_dishes(dishes')
                 THEN "ADD_PEOPLE" ELSE state
     IN  state' = IF collidepoint(back_button, pos) THEN "MENU" ELSE st
  /\ UNCHANGED dish_rects

\* _handle_add_people_events: add_person_button, then next_button, then
\* back_button (no position is inside two of them)
UI_AddPeople(pos, name_text) ==
  /\ state = "ADD_PEOPLE"
  /\ LET go == collidepoint(next_button, pos) /\ has_people(people')
         st == IF go THEN "ASSIGN_ORDERS" ELSE state
     IN  /\ IF collidepoint(add_person_button, pos)
              THEN add_person(name_text)
              ELSE /\ people' = people
                   /\ current_person_index' = IF go THEN 0 ELSE current_person_index
                   /\ selected_dishes' = IF go THEN <<>> ELSE selected_dishes
                   /\ last' = Returned("_handle_add_people_events", "None")
                   /\ UNCHANGED <<dishes, calc_calls>>
         /\ state' = IF collidepoint(back_button, pos) THEN "ADD_DISHES" ELSE st
  /\ UNCHANGED dish_rects

\* OutputManager.save_bill_to_file: what it writes to the file, the name and
\* total of every person, the sum of the prices, and for every dish its name,
\* price, eaters and shared price
save_bill_to_file(ds, ppl) ==
  [amounts |-> [i \in DOMAIN ppl |-> <<ppl[i].name, ppl[i].total>>],
   total_bill |-> get_total_bill(ds),
   breakdown |-> [i \in DOMAIN ds |->
                    <<ds[i].name, ds[i].price, ds[i].eaters, get_shared_price(ds[i])>>]]

\* _handle_assign_orders_events, a hit of back_button: the state, the index and
\* the selection it leaves
UI_Back(st, idx, sel) == [state |-> "ADD_PEOPLE", index |-> idx, selected |-> sel]

\* _handle_assign_orders_events: the dish areas (toggle_dish_selection for each
\* one hit), then next_button (advance_to_next_person and, after the last
\* person, calculate_bills and save_bill_to_file), then back_button
UI_AssignOrders(pos) ==
  /\ state = "ASSIGN_ORDERS"
  /\ LET sel1 == ToggleHits(dish_rects, pos, selected_dishes)
         go == collidepoint(next_button, pos)
         ds2 == IF go
                  THEN assign_selected_dishes_to_current_person(
                         dishes, people, current_person_index, sel1)
                  ELSE dishes
         idx2 == IF go THEN current_person_index + 1 ELSE current_person_index
         sel2 == IF go THEN <<>> ELSE sel1
         has_more == idx2 < Len(people)
         finish == go /\ ~has_more
         st2 == IF finish THEN "FILE_SAVED" ELSE state
         after == IF collidepoint(back_button, pos)
                    THEN UI_Back(st2, idx2, sel2)
                    ELSE [state |-> st2, index |-> idx2, selected |-> sel2]
     IN  /\ dishes' = ds2
         /\ people' = IF finish THEN calculate_bills(ds2, people) ELSE people
         /\ calc_calls' = IF finish THEN calc_calls + 1 ELSE calc_calls
         /\ state' = after.state
         /\ current_person_index' = after.index
         /\ selected_dishes' = after.selected
         /\ last' = IF finish
                      THEN Returned("save_bill_to_file",
                                    save_bill_to_file(ds2, calculate_bills(ds2, people)))
                      ELSE Returned("_handle_assign_orders_events", "None")
  /\ UNCHANGED dish_rects

\* _handle_results_events, in STATE_RESULTS and STATE_FILE_SAVED
UI_Results(pos) ==
  /\ state \in {"RESULTS", "FILE_SAVED"}
  /\ IF collidepoint(restart_button, pos)
       THEN reset /\ state' = "MENU"
       ELSE /\ last' = Returned("_handle_results_events", "None")
            /\ UNCHANGED <<dishes, people, current_person_index, selected_dishes,
                           calc_calls, state>>
  /\ UNCHANGED dish_rects

\* draw in STATE_ASSIGN_ORDERS (_draw_assign_orders_screen); the other screens
\* change nothing
UI_Draw ==
  /\ state = "ASSIGN_ORDERS"
  /\ dish_rects' = IF has_current_person(people, current_person_index)
                     THEN UI_StoreRects(dishes)
                     ELSE dish_rects
  /\ last' = Returned("draw", "None")
  /\ UNCHANGED <<dishes, people, current_person_index, selected_dishes, calc_calls,
                 state>>

UINext ==
  \/ \E pos \in ClickPoints : UI_Menu(pos) /\ UNCHANGED othersOfApp
  \/ \E pos \in ClickPoints, name_text \in BoxNameStrs, price_text \in BoxPriceStrs :
       UI_AddDishes(pos, name_text, price_text) /\ UNCHANGED othersOfApp
  \/ \E pos \in ClickPoints, name_text \in BoxNameStrs :
       UI_AddPeople(pos, name_text) /\ UNCHANGED othersOfApp
  \/ \E pos \in ClickPoints : UI_AssignOrders(pos) /\ UNCHANGED othersOfApp
  \/ \E pos \in ClickPoints : UI_Results(pos) /\ UNCHANGED othersOfApp
  \/ UI_Draw /\ UNCHANGED othersOfApp

UISpec == Init /\ [][UINext]_vars

\* ------------------------------------------------------------------ My short notes/1.py, BillApp
\* The buttons the draw_ methods build: draw_language_select, draw_step1 to
\* draw_step4.
en_btn == Rect(250, 380, 200, 100)
th_btn == Rect(550, 380, 200, 100)
add_btn_step1 == Rect(640, 520, 100, 45)
add_btn_step2 == Rect(520, 520, 100, 45)
next_btn == Rect(820, 630, 150, 50)
back_btn == Rect(50, 630, 150, 50)
restart_btn == Rect(400, 630, 200, 50)

\* The delete button of the i-th row (from 0) of draw_step1 and draw_step2.
del_btn(i) == Rect(750, 100 + 40 * i, 100, 30)

\* The button of the j-th person in the row of the i-th dish (from 0) of draw_step3.
person_btn(i, j) == Rect(280 + 150 * j, 130 + 50 * i, 140, 35)

\* Where MOUSEBUTTONDOWN events arrive: inside every button the screens can
\* show for two dishes and two people, and on nothing.
BillClickPoints ==
  { Centre(b) : b \in { en_btn, th_btn, add_btn_step1, add_btn_step2, next_btn,
                        back_btn, restart_btn } }
    \cup { Centre(del_btn(i)) : i \in 0..1 }
    \cup { Centre(person_btn(i, j)) : i \in 0..1, j \in 0..1 }
    \cup { <<0, 0>> }

\* What dish_name_box, price_box (number_only: digits and ".") and
\* person_name_box hold when add_dish or add_person reads them.
BillDishBoxes ==
  { [name |-> <<>>, price |-> <<"1">>],
    [name |-> <<"a">>, price |-> <<>>],
    [name |-> <<"a">>, price |-> <<".">>],
    [name |-> <<"a">>, price |-> <<"0">>],
    [name |-> <<"a">>, price |-> <<"1">>],
    [name |-> <<"a">>, price |-> <<"2">>],
    [name |-> <<"b", " ">>, price |-> <<" ", "1">>] }
BillPersonStrs == { <<>>, <<"p">>, <<" ", "q">> }

\* self.buttons[i].clicked(pos), i from 0
clicked(btns, i, pos) == collidepoint(btns[i + 1], pos)

\* BillApp.add_dish: the menu it leaves; self.menu[dish_name] = price keeps the
\* place of a key that is already there
Bill_add_dish(mn, name_text, price_box_text) ==
  LET dish_name == Strip(name_text)
      price_text == Strip(price_box_text)
      parsed == ParseFloat(price_text)
  IN  IF dish_name = <<>> THEN mn
      ELSE IF price_text = <<>> THEN mn
      ELSE IF ~parsed.ok THEN mn
      ELSE IF FLess(Zero, parsed.val)
        THEN IF dish_name \in Keys(mn)
               THEN [mn EXCEPT ![IndexOf(mn, dish_name)].price = parsed.val]
               ELSE Append(mn, [name |-> dish_name, price |-> parsed.val])
      ELSE mn

\* BillApp.add_person: the people it leaves
Bill_add_person(ppl, name_text) ==
  LET name == Strip(name_text)
  IN  IF name = <<>> THEN ppl
      ELSE IF name \in Range(ppl) THEN ppl
      ELSE Append(ppl, name)

\* d without its entry of key k, if it has one.
DelKey(d, k) ==
  IF k \in Keys(d)
    THEN SubSeq(d, 1, IndexOf(d, k) - 1) \o SubSeq(d, IndexOf(d, k) + 1, Len(d))
    ELSE d

\* update, step 1, the loop over list(self.menu.keys()): the first dish whose
\* delete area holds pos leaves menu and eaters (break)
Bill_DeleteDish(mn, eat, pos) ==
  LET hits == { i \in DOMAIN mn : collidepoint(del_btn(i - 1), pos) }
  IN  IF hits = {} THEN [menu |-> mn, eaters |-> eat]
      ELSE LET i == CHOOSE k \in hits : \A j \in hits : k <= j
           IN  [menu |-> DelKey(mn, mn[i].name), eaters |-> DelKey(eat, mn[i].name)]

\* for dish in self.eaters: if person in self.eaters[dish]: remove
WithoutEater(eat, person) ==
  [i \in DOMAIN eat |->
     IF person \in Range(eat[i].eaters)
       THEN [eat[i] EXCEPT !.eaters = Remove(@, person)]
       ELSE eat[i]]

\* update, step 2, the loop over self.del_buttons: self.people.remove(person)
\* raises ValueError for a person who is not in the list
RECURSIVE Bill_DeletePeople(_, _, _, _)
Bill_DeletePeople(dels, pos, ppl, eat) ==
  IF dels = <<>> THEN [people |-> ppl, eaters |-> eat, crash |-> ""]
  ELSE IF collidepoint(Head(dels).rect, pos)
    THEN IF Head(dels).name \in Range(ppl)
           THEN Bill_DeletePeople(Tail(dels), pos, Remove(ppl, Head(dels).name),
                                  WithoutEater(eat, Head(dels).name))
           ELSE [people |-> ppl, eaters |-> eat, crash |-> "ValueError"]
  ELSE Bill_DeletePeople(Tail(dels), pos, ppl, eat)

\* update, step 3, the loop over self.person_buttons: self.eaters[dish] raises
\* KeyError for a dish without an entry
RECURSIVE Bill_ToggleEaters(_, _, _)
Bill_ToggleEaters(pbs, pos, eat) ==
  IF pbs = <<>> THEN [eaters |-> eat, crash |-> ""]
  ELSE IF collidepoint(Head(pbs).rect, pos)
    THEN IF Head(pbs).dish \in Keys(eat)
           THEN LET i == IndexOf(eat, Head(pbs).dish)
                    person == Head(pbs).person
                IN  Bill_ToggleEaters(
                      Tail(pbs), pos,
                      [eat EXCEPT ![i].eaters = IF person \in Range(@)
                                                  THEN Remove(@, person)
                                                  ELSE Append(@, person)])
           ELSE [eaters |-> eat, crash |-> "KeyError eaters"]
  ELSE Bill_ToggleEaters(Tail(pbs), pos, eat)

\* update, MOUSEBUTTONDOWN in step 0; self.buttons exists only once a screen
\* has been drawn
Bill_Step0(pos) ==
  /\ crash = "" /\ pending < MaxPending /\ pending' = pending + 1 /\ step = 0
  /\ IF buttons = <<>>
       THEN crash' = "AttributeError" /\ step' = step
       ELSE /\ step' = IF clicked(buttons, 0, pos) \/ clicked(buttons, 1, pos)
                         THEN 1 ELSE step
            /\ crash' = crash
  /\ UNCHANGED <<menu, bill_people, bill_eaters, buttons, del_buttons, person_buttons>>

\* update, MOUSEBUTTONDOWN in step 1
Bill_Step1(pos, name_text, price_box_text) ==
  /\ crash = "" /\ pending < MaxPending /\ pending' = pending + 1 /\ step = 1
  /\ LET add == clicked(buttons, 0, pos)
         menu1 == IF add THEN Bill_add_dish(menu, name_text, price_box_text) ELSE menu
         go == ~add /\ Len(buttons) > 1 /\ clicked(buttons, 1, pos) /\ menu # <<>>
         after == Bill_DeleteDish(menu1, bill_eaters, pos)
     IN  /\ step' = IF go THEN 2 ELSE step
         /\ menu' = after.menu
         /\ bill_eaters' = after.eaters
  /\ del_buttons' = <<>>
  /\ UNCHANGED <<bill_people, buttons, person_buttons, crash>>

\* update, MOUSEBUTTONDOWN in step 2
Bill_Step2(pos, name_text) ==
  /\ crash = "" /\ pending < MaxPending /\ pending' = pending + 1 /\ step = 2
  /\ LET add == clicked(buttons, 0, pos)
         people1 == IF add THEN Bill_add_person(bill_people, name_text) ELSE bill_people
         back == ~add /\ clicked(buttons, 1, pos)
         go == ~add /\ ~back /\ Len(buttons) > 2 /\ clicked(buttons, 2, pos)
                 /\ bill_people # <<>>
         after == Bill_DeletePeople(del_buttons, pos, people1, bill_eaters)
     IN  /\ step' = IF back THEN 1 ELSE IF go THEN 3 ELSE step
         /\ bill_people' = after.people
         /\ bill_eaters' = after.eaters
         /\ crash' = after.crash
  /\ UNCHANGED <<menu, buttons, del_buttons, person_buttons>>

\* update, MOUSEBUTTONDOWN in step 3
Bill_Step3(pos) ==
  /\ crash = "" /\ pending < MaxPending /\ pending' = pending + 1 /\ step = 3
  /\ LET after == Bill_ToggleEaters(person_buttons, pos, bill_eaters)
     IN  /\ bill_eaters' = after.eaters
         /\ crash' = after.crash
         /\ step' = IF after.crash # "" THEN step
                    ELSE IF clicked(buttons, 0, pos) THEN 2
                    ELSE IF clicked(buttons, 1, pos) THEN 4
                    ELSE step
  /\ UNCHANGED <<menu, bill_people, buttons, del_buttons, person_buttons>>

\* update, MOUSEBUTTONDOWN in step 4
Bill_Step4(pos) ==
  /\ crash = "" /\ pending < MaxPending /\ pending' = pending + 1 /\ step = 4
  /\ IF clicked(buttons, 0, pos)
       THEN step' = 3 /\ UNCHANGED <<menu, bill_people, bill_eaters>>
     ELSE IF clicked(buttons, 1, pos)
       THEN /\ step' = 0
            /\ menu' = <<>>
            /\ bill_people' = <<>>
            /\ bill_eaters' = <<>>
     ELSE UNCHANGED <<step, menu, bill_people, bill_eaters>>
  /\ UNCHANGED <<buttons, del_buttons, person_buttons, crash>>

\* update, KEYDOWN K_RETURN in an active input box: add_dish in step 1,
\* add_person in step 2
Bill_Enter(dish_text, price_box_text, person_text) ==
  /\ crash = "" /\ pending < MaxPending /\ pending' = pending + 1 /\ step \in {1, 2}
  /\ menu' = IF step = 1 THEN Bill_add_dish(menu, dish_text, price_box_text) ELSE menu
  /\ bill_people' = IF step = 2 THEN Bill_add_person(bill_people, person_text)
                                ELSE bill_people
  /\ UNCHANGED <<step, bill_eaters, buttons, del_buttons, person_buttons, crash>>

\* draw_step3: self.eaters[dish] = [] for every dish of the menu without an entry
RECURSIVE Bill_WithEntries(_, _)
Bill_WithEntries(eat, mn) ==
  IF mn = <<>> THEN eat
  ELSE Bill_WithEntries(
         IF Head(mn).name \in Keys(eat)
           THEN eat
           ELSE Append(eat, [name |-> Head(mn).name, eaters |-> <<>>]),
         Tail(mn))

\* draw_step4: eaters = self.eaters.get(dish, []) of every dish of the menu
Bill_EatersOf(eat, dish) ==
  IF dish \in Keys(eat) THEN eat[IndexOf(eat, dish)].eaters ELSE <<>>

\* draw: the screen of the current step, with the lists of buttons it stores
Bill_Draw ==
  /\ crash = "" /\ pending' = 0
  /\ CASE step = 0 ->
            /\ buttons' = <<en_btn, th_btn>>
            /\ UNCHANGED <<bill_eaters, del_buttons, person_buttons, crash>>
       [] step = 1 ->
            /\ Len(del_buttons) + Len(menu) <= MaxDelButtons
            /\ del_buttons' = del_buttons \o
                 [i \in DOMAIN menu |-> [name |-> menu[i].name, rect |-> del_btn(i - 1)]]
            /\ buttons' = <<add_btn_step1, next_btn>>
            /\ UNCHANGED <<bill_eaters, person_buttons, crash>>
       [] step = 2 ->
            /\ del_buttons' =
                 IF bill_people = <<>> THEN del_buttons
                 ELSE [i \in DOMAIN bill_people |->
                         [name |-> bill_people[i], rect |-> del_btn(i - 1)]]
            /\ buttons' = <<add_btn_step2, back_btn, next_btn>>
            /\ UNCHANGED <<bill_eaters, person_buttons, crash>>
       [] step = 3 ->
            /\ bill_eaters' = Bill_WithEntries(bill_eaters, menu)
            /\ person_buttons' =
                 [k \in 1..(Len(menu) * Len(bill_people)) |->
                    LET i == (k - 1) \div Len(bill_people)
                        j == (k - 1) % Len(bill_people)
                    IN  [dish |-> menu[i + 1].name, person |-> bill_people[j + 1],
                         rect |-> person_btn(i, j)]]
            /\ buttons' = <<back_btn, next_btn>>
            /\ UNCHANGED <<del_buttons, crash>>
       [] step = 4 ->
            IF \E i \in DOMAIN menu :
                 ~(Range(Bill_EatersOf(bill_eaters, menu[i].name)) \subseteq Range(bill_people))
              THEN /\ crash' = "KeyError totals"
                   /\ UNCHANGED <<buttons, bill_eaters, del_buttons, person_buttons>>
              ELSE /\ buttons' = <<back_btn, restart_btn>>
                   /\ UNCHANGED <<bill_eaters, del_buttons, person_buttons, crash>>
  /\ UNCHANGED <<step, menu, bill_people>>

BillNext ==
  \/ \E pos \in BillClickPoints : Bill_Step0(pos) /\ UNCHANGED othersOfBill
  \/ \E pos \in BillClickPoints, box \in BillDishBoxes :
       Bill_Step1(pos, box.name, box.price) /\ UNCHANGED othersOfBill
  \/ \E pos \in BillClickPoints, name_text \in BillPersonStrs :
       Bill_Step2(pos, name_text) /\ UNCHANGED othersOfBill
  \/ \E pos \in BillClickPoints : Bill_Step3(pos) /\ UNCHANGED othersOfBill
  \/ \E pos \in BillClickPoints : Bill_Step4(pos) /\ UNCHANGED othersOfBill
  \/ \E box \in BillDishBoxes, person_text \in BillPersonStrs :
       Bill_Enter(box.name, box.price, person_text) /\ UNCHANGED othersOfBill
  \/ Bill_Draw /\ UNCHANGED othersOfBill

BillSpec == Init /\ [][BillNext]_vars

\* ------------------------------------------------------------------ final_claude.py, the last BillSplitterApp
\* add_dish reads the two input boxes; final_chat.py has the same method.
\* The dishes it leaves.
Final_add_dish(ds, name_text, price_text) ==
  LET dish_name == Strip(name_text)
      price_string == Strip(price_text)
      parsed == ParseFloat(price_string)
  IN  IF dish_name = <<>> \/ price_string = <<>> THEN ds
      ELSE IF dish_name \in Keys(ds) THEN ds
      ELSE IF ~parsed.ok THEN ds
      ELSE Append(ds, Dish(dish_name, parsed.val))

\* add_dish with name_text and price_text in dish_name_input.text and
\* dish_price_input.text; last.ret holds the texts of the boxes afterwards,
\* which are cleared exactly when the dish is registered.
Final_AddDish(name_text, price_text) ==
  /\ dishes' = Final_add_dish(dishes, name_text, price_text)
  /\ last' = Returned("Final add_dish",
                      IF dishes' # dishes
                        THEN [name |-> <<>>, price |-> <<>>]
                        ELSE [name |-> name_text, price |-> price_text])
  /\ UNCHANGED <<people, current_person_index, selected_dishes, calc_calls>>

FinalNext ==
  \E name_text \in NameStrs, price_text \in PriceStrs :
    Final_AddDish(name_text, price_text) /\ UNCHANGED othersOfCollector

FinalSpec == Init /\ [][FinalNext]_vars

\* ------------------------------------------------------------------ binary64
\* Python's float is IEEE-754 binary64 with round-to-nearest, ties-to-even.  A
\* natural number is the sequence of its bits, lowest first, without high zeros;
\* a finite float is [neg, m, e] of value m * 2^e, negated when neg, where m has
\* 53 bits with the highest set, or F64Zero.  Subnormals, infinities, NaN and
\* -0.0 are outside the amounts used below.
Precision == 53
GuardBits == 12

\* b without its high zeros
Trim(b) ==
  IF \A i \in DOMAIN b : b[i] = 0 THEN <<>>
  ELSE SubSeq(b, 1, CHOOSE i \in DOMAIN b :
                      b[i] = 1 /\ \A j \in (i + 1)..Len(b) : b[j] = 0)

\* The bits of 0 <= i < 2^31
BitsOf(i) == Trim([j \in 1..31 |-> (i \div 2^(j - 1)) % 2])

ShiftLeft(b, k) == IF b = <<>> THEN <<>> ELSE [i \in 1..k |-> 0] \o b

\* Sums and quotients are computed LimbWidth bits at a time.
LimbWidth == 16

\* The j-th limb of b, lowest first (bits LimbWidth * (j - 1) + 1 .. LimbWidth * j)
Limb(b, j) ==
  LET value[i \in 1..(LimbWidth + 1)] ==
        IF i > LimbWidth THEN 0
        ELSE (IF LimbWidth * (j - 1) + i \in DOMAIN b THEN b[LimbWidth * (j - 1) + i] ELSE 0)
               + 2 * value[i + 1]
  IN  value[1]

\* The bits of a limb x
LimbBits(x) == [i \in 1..LimbWidth |-> (x \div 2^(i - 1)) % 2]

\* Limbs j..n of a + b with the carry into limb j, then the last carry
RECURSIVE BigAddFrom(_, _, _, _, _)
BigAddFrom(a, b, j, n, carry) ==
  IF j > n THEN <<carry>>
  ELSE LET sum == Limb(a, j) + Limb(b, j) + carry
       IN  LimbBits(sum % 2^LimbWidth) \o BigAddFrom(a, b, j + 1, n, sum \div 2^LimbWidth)

BigAdd(a, b) ==
  Trim(BigAddFrom(a, b, 1, (Len(a) + Len(b)) \div LimbWidth + 1, 0))

\* Limbs j..n of a - b with the borrow from limb j, for a >= b
RECURSIVE BigSubFrom(_, _, _, _, _)
BigSubFrom(a, b, j, n, borrow) ==
  IF j > n THEN <<>>
  ELSE LET diff == Limb(a, j) - Limb(b, j) - borrow
       IN  IF diff < 0
             THEN LimbBits(diff + 2^LimbWidth) \o BigSubFrom(a, b, j + 1, n, 1)
             ELSE LimbBits(diff) \o BigSubFrom(a, b, j + 1, n, 0)

BigSub(a, b) == Trim(BigSubFrom(a, b, 1, Len(a) \div LimbWidth + 1, 0))

\* Long division of limbs 1..j of b by the small k, highest limb first, rem being
\* the remainder of the limbs above j: the quotient bits q and the remainder r.
RECURSIVE BigDivFrom(_, _, _, _)
BigDivFrom(b, k, j, rem) ==
  IF j = 0 THEN [q |-> <<>>, r |-> rem]
  ELSE LET cur == rem * 2^LimbWidth + Limb(b, j)
           rest == BigDivFrom(b, k, j - 1, cur % k)
       IN  [q |-> rest.q \o LimbBits(cur \div k), r |-> rest.r]

\* The float nearest to n * 2^e (+ a part below the lowest bit of n when sticky),
\* ties to even, with the sign neg; n # <<>>, and n longer than Precision when
\* sticky.
RoundNearestEven(neg, n, e, sticky) ==
  IF Len(n) <= Precision
    THEN [neg |-> neg, m |-> ShiftLeft(n, Precision - Len(n)),
          e |-> e - (Precision - Len(n))]
    ELSE LET t == Len(n) - Precision
             kept == SubSeq(n, t + 1, Len(n))
             below == sticky \/ \E i \in 1..(t - 1) : n[i] = 1
             up == n[t] = 1 /\ (below \/ kept[1] = 1)
             r == IF up THEN BigAdd(kept, <<1>>) ELSE kept
         IN  IF Len(r) > Precision
               THEN [neg |-> neg, m |-> SubSeq(r, 2, Len(r)), e |-> e + t + 1]
               ELSE [neg |-> neg, m |-> r, e |-> e + t]

F64Zero == [neg |-> FALSE, m |-> <<>>, e |-> 0]

\* float(i) for an integer -2^31 < i < 2^31
F64FromInt(i) ==
  IF i = 0 THEN F64Zero ELSE RoundNearestEven(i < 0, BitsOf(Abs(i)), 0, FALSE)

\* a < b for naturals
BigLess(a, b) ==
  \/ Len(a) < Len(b)
  \/ /\ Len(a) = Len(b)
     /\ \E i \in DOMAIN a : a[i] < b[i] /\ \A j \in (i + 1)..Len(a) : a[j] = b[j]

\* a < b
F64Less(a, b) ==
  LET MagLess(x, y) == IF y = F64Zero THEN FALSE
                       ELSE IF x = F64Zero THEN TRUE
                       ELSE IF x.e # y.e THEN x.e < y.e
                       ELSE BigLess(x.m, y.m)
  IN  IF a.neg # b.neg THEN a.neg
      ELSE IF a.neg THEN MagLess(b, a)
      ELSE MagLess(a, b)

\* a + b
F64Add(a, b) ==
  IF a = F64Zero THEN b
  ELSE IF b = F64Zero THEN a
  ELSE LET e == IF a.e < b.e THEN a.e ELSE b.e
           x == ShiftLeft(a.m, a.e - e)
           y == ShiftLeft(b.m, b.e - e)
       IN  IF a.neg = b.neg THEN RoundNearestEven(a.neg, BigAdd(x, y), e, FALSE)
           ELSE IF x = y THEN F64Zero
           ELSE IF BigLess(x, y) THEN RoundNearestEven(b.neg, BigSub(y, x), e, FALSE)
           ELSE RoundNearestEven(a.neg, BigSub(x, y), e, FALSE)

\* a / k for an integer 1 <= k < 2^8 (the int is converted exactly)
F64Div(a, k) ==
  IF a = F64Zero THEN F64Zero
  ELSE LET n == ShiftLeft(a.m, GuardBits)
           d == BigDivFrom(n, k, Len(n) \div LimbWidth + 1, 0)
       IN  RoundNearestEven(a.neg, Trim(d.q), a.e - GuardBits, d.r # 0)

\* Dish.get_shared_price
F64_get_shared_price(dish) ==
  IF Len(dish.eaters) = 0 THEN F64Zero ELSE F64Div(dish.price, Len(dish.eaters))

\* Person.add_to_total
F64_add_to_total(person, amount) == [person EXCEPT !.total = F64Add(@, amount)]

\* calculate_bills, first loop
F64_reset_totals(ppl) == [i \in DOMAIN ppl |-> [ppl[i] EXCEPT !.total = F64Zero]]

\* calculate_bills, inner loop
RECURSIVE F64_AddShares(_, _, _)
F64_AddShares(ppl, eaters, shared_price) ==
  IF eaters = <<>> THEN ppl
  ELSE LET eater_name == Head(eaters)
           next == IF eater_name \in Keys(ppl)
                     THEN [ppl EXCEPT ![IndexOf(ppl, eater_name)] =
                                        F64_add_to_total(@, shared_price)]
                     ELSE ppl
       IN  F64_AddShares(next, Tail(eaters), shared_price)

\* calculate_bills, outer loop over dish_iterator(dishes)
RECURSIVE F64_CalcDishes(_, _)
F64_CalcDishes(ppl, ds) ==
  IF ds = <<>> THEN ppl
  ELSE F64_CalcDishes(F64_AddShares(ppl, Head(ds).eaters, F64_get_shared_price(Head(ds))),
                      Tail(ds))

\* A plausible slip: the totals are not reset before the shares are added.
F64_calculate_bills_NoReset(ds, ppl) == F64_CalcDishes(ppl, ds)

\* BillCalculator.calculate_bills
F64_calculate_bills(ds, ppl) == F64_CalcDishes(F64_reset_totals(ppl), ds)

\* BillCalculator.get_total_bill: sum(...) adds from the left, starting at 0
RECURSIVE F64_get_total_bill(_)
F64_get_total_bill(ds) ==
  IF ds = <<>> THEN F64Zero
  ELSE F64Add(F64_get_total_bill(SubSeq(ds, 1, Len(ds) - 1)), ds[Len(ds)].price)

\* sum(person.total for person in people.values())
RECURSIVE F64_total_paid(_)
F64_total_paid(ppl) ==
  IF ppl = <<>> THEN F64Zero
  ELSE F64Add(F64_total_paid(SubSeq(ppl, 1, Len(ppl) - 1)), ppl[Len(ppl)].total)

\* The dicts handed to calculate_bills: one or two dishes at 0, 1 or 25, each
\* eaten by any of a, b, c in any order, and a's total at 0 or -7 before the call.
F64Init ==
  /\ \E n \in 1..2 :
       \E price \in [1..n -> {0, 1, 25}] :
         \E eaters \in [1..n -> DupFreeSeqs({ <<"a">>, <<"b">>, <<"c">> }, 3)] :
           dishes = [i \in 1..n |->
                       [name |-> DishName(i), price |-> F64FromInt(price[i]),
                        eaters |-> eaters[i]]]
  /\ \E total \in {0, -7} :
       people = << [name |-> <<"a">>, total |-> F64FromInt(total)],
                   [name |-> <<"b">>, total |-> F64Zero],
                   [name |-> <<"c">>, total |-> F64Zero] >>
  /\ current_person_index = 0
  /\ selected_dishes = <<>>
  /\ last = Returned("__init__", "None")
  /\ calc_calls = 0
  /\ added = <<>>
  /\ state = "MENU"
  /\ dish_rects = <<>>
  /\ Bill_init

\* BillCalculator.calculate_bills(dishes, people)
F64_CalculateBills ==
  /\ people' = F64_calculate_bills(dishes, people)
  /\ last' = Returned("calculate_bills", "None")
  /\ calc_calls' = calc_calls + 1
  /\ UNCHANGED <<dishes, current_person_index, selected_dishes>>

\* BillCalculator.get_total_bill(dishes)
F64_GetTotalBill ==
  /\ last' = Returned("get_total_bill", F64_get_total_bill(dishes))
  /\ UNCHANGED <<dishes, people, current_person_index, selected_dishes, calc_calls>>

F64Next ==
  \/ calc_calls < MaxCalc /\ F64_CalculateBills /\ UNCHANGED othersOfCollector
  \/ F64_GetTotalBill /\ UNCHANGED othersOfCollector

F64Spec == F64Init /\ [][F64Next]_vars

\* ------------------------------------------------------------------ claims
\* The sum, over the dishes at positions I of ds that name is an eater of, of
\* price / len(eaters).
RECURSIVE SumOfShares(_, _, _)
SumOfShares(ds, I, name) ==
  IF I = {} THEN Zero
  ELSE LET i == CHOOSE k \in I : TRUE
           rest == SumOfShares(ds, I \ {i}, name)
       IN  IF name \in Range(ds[i].eaters)
             THEN FAdd(rest, FDiv(ds[i].price, Len(ds[i].eaters)))
             ELSE rest

ExpectedTotal(ds, name) == SumOfShares(ds, DOMAIN ds, name)

\* The sum of the totals of the people at positions I.
RECURSIVE SumOfTotals(_, _)
SumOfTotals(ppl, I) ==
  IF I = {} THEN Zero
  ELSE LET i == CHOOSE k \in I : TRUE
       IN  FAdd(SumOfTotals(ppl, I \ {i}), ppl[i].total)

\* Every person of ppl has as total the shares of the dishes of ds they eat of.
TotalsDerivedOf(ds, ppl) ==
  \A i \in DOMAIN ppl : ppl[i].total = ExpectedTotal(ds, ppl[i].name)

TotalsDerived == TotalsDerivedOf(dishes, people)

\* s without its leading and trailing blanks.
Trimmed(s) ==
  LET solid == { i \in DOMAIN s : s[i] # " " }
  IN  IF solid = {} THEN <<>>
      ELSE SubSeq(s, CHOOSE i \in solid : \A j \in solid : i <= j,
                     CHOOSE i \in solid : \A j \in solid : i >= j)

\* C1: after calculate_bills(dishes, people) every person's total is the sum, over
\* the dishes that person is an eater of, of price / len(eaters), whatever the
\* totals were before the call.
C1_TotalsAreSumOfShares == last.op = "calculate_bills" => TotalsDerived

C1_Witness ==
  /\ last.op = "calculate_bills"
  /\ calc_calls = 1
  /\ Len(dishes) = 2
  /\ \E i \in DOMAIN people : people[i].total = [nan |-> FALSE, n |-> 5, d |-> 2]
  /\ \E i \in DOMAIN people : people[i].total = Zero

\* C2 as stated: when every dish has at least one eater, after calculate_bills the
\* totals add up to get_total_bill(dishes).
C2_TotalsAddUpToBill ==
  (last.op = "calculate_bills" /\ \A i \in DOMAIN dishes : Len(dishes[i].eaters) >= 1)
    => SumOfTotals(people, DOMAIN people) = get_total_bill(dishes)

\* C2 amended: when every dish has at least one eater and every eater is a key of
\* people, after calculate_bills the totals add up to get_total_bill(dishes).
C2_TotalsAddUpToBillOfKnownEaters ==
  ( /\ last.op = "calculate_bills"
    /\ \A i \in DOMAIN dishes :
         Len(dishes[i].eaters) >= 1 /\ Range(dishes[i].eaters) \subseteq Keys(people) )
    => SumOfTotals(people, DOMAIN people) = get_total_bill(dishes)

C2_Witness ==
  /\ last.op = "calculate_bills"
  /\ Len(dishes) = 2
  /\ \A i \in DOMAIN dishes :
       Len(dishes[i].eaters) >= 1 /\ Range(dishes[i].eaters) \subseteq Keys(people)
  /\ \E i \in DOMAIN dishes : Len(dishes[i].eaters) = 2
  /\ get_total_bill(dishes) = FromInt(4)
  /\ \E i \in DOMAIN people : people[i].total = [nan |-> FALSE, n |-> 3, d |-> 2]

\* C3: a calculate_bills call that follows a calculate_bills call on the same
\* dishes and people leaves every person's total as it was.
C3_CalculateTwiceIsIdempotent ==
  [][(calc_calls >= 1 /\ calc_calls' = calc_calls + 1) => people' = people]_vars

C3_Witness ==
  /\ calc_calls = 2
  /\ \E i \in DOMAIN people : people[i].total = [nan |-> FALSE, n |-> 3, d |-> 2]

\* C4 as stated: in every state of a session each person's total is the sum of the
\* shared prices of the dishes that person is an eater of.
C4_TotalsAlwaysDerived == TotalsDerived

\* C4 amended: each person's total is that sum after construction, after reset and
\* after calculate_bills, and every call other than advance_to_next_person keeps
\* it so; advance_to_next_person may leave the totals stale.
C4_TotalsDerivedUntilAdvance ==
  [][/\ last.op \in {"__init__", "reset", "calculate_bills"} => TotalsDerived
     /\ last'.op \in {"__init__", "reset", "calculate_bills"}
          => TotalsDerivedOf(dishes', people')
     /\ (TotalsDerived /\ last'.op # "advance_to_next_person")
          => TotalsDerivedOf(dishes', people')]_vars

C4_Witness ==
  /\ last.op = "calculate_bills"
  /\ calc_calls = 2
  /\ \E i \in DOMAIN dishes : Len(dishes[i].eaters) = 2
  /\ \E i \in DOMAIN people : people[i].total = [nan |-> FALSE, n |-> 3, d |-> 2]

\* C5: advance_to_next_person, called while current_person_index < len(people),
\* makes the current person an eater of every existing dish named in
\* selected_dishes, leaves the eaters of the other dishes as they were, empties
\* selected_dishes and adds exactly 1 to current_person_index.
C5_AdvanceCommitsSelection ==
  [][(last'.op = "advance_to_next_person" /\ current_person_index < Len(people)) =>
       LET person_name == people[current_person_index + 1].name
       IN  /\ Len(dishes') = Len(dishes)
           /\ \A i \in DOMAIN dishes :
                /\ dishes'[i].name = dishes[i].name
                /\ dishes'[i].price = dishes[i].price
                /\ IF dishes[i].name \in Range(selected_dishes)
                     THEN Range(dishes'[i].eaters) =
                            Range(dishes[i].eaters) \cup {person_name}
                     ELSE dishes'[i].eaters = dishes[i].eaters
           /\ selected_dishes' = <<>>
           /\ current_person_index' = current_person_index + 1]_vars

C5_Witness ==
  /\ last.op = "advance_to_next_person"
  /\ current_person_index = 2
  /\ Len(people) = 2
  /\ selected_dishes = <<>>
  /\ \E i \in DOMAIN dishes : dishes[i].eaters = <<people[2].name>>
  /\ \E i \in DOMAIN dishes : dishes[i].eaters = <<people[1].name>>

\* C6: advance_to_next_person called when current_person_index = len(people) is
\* a no-op (index, selected_dishes and every dish's eaters unchanged), so the
\* index never exceeds len(people).
C6_AdvanceWhenDoneIsNoOp ==
  [][(last'.op = "advance_to_next_person" /\ current_person_index = Len(people)) =>
       /\ current_person_index' = current_person_index
       /\ selected_dishes' = selected_dishes
       /\ dishes' = dishes
       /\ current_person_index' <= Len(people')]_vars

\* C7: toggle_dish_selection of a name that is not a key of dishes leaves
\* selected_dishes unchanged, so selected_dishes holds names of existing dishes only.
C7_ToggleUnknownDishIsNoOp ==
  [][/\ \A dish_name \in ToggleStrs :
          (dish_name \notin Keys(dishes) /\ toggle_dish_selection(dish_name))
            => selected_dishes' = selected_dishes
     /\ Range(selected_dishes') \subseteq Keys(dishes')]_vars

\* C8: add_dish(name, price_str) returns True and registers the dish exactly when
\* the trimmed name is non-empty and not a key of dishes and price_str parses to a
\* number >= 0; otherwise it returns False and changes nothing.
C8_AddDishAcceptsExactlyValid ==
  [][\A name \in NameStrs, price_str \in PriceStrs :
       add_dish(name, price_str) =>
         LET parsed == ParseFloat(Trimmed(price_str))
             valid == /\ Trimmed(name) # <<>>
                      /\ Trimmed(name) \notin Keys(dishes)
                      /\ parsed.ok /\ ~parsed.val.nan /\ parsed.val.n >= 0
         IN  /\ last'.ret = "True" <=> valid
             /\ valid => dishes' = Append(dishes, [name |-> Trimmed(name),
                                                   price |-> parsed.val,
                                                   eaters |-> <<>>])
             /\ ~valid => dishes' = dishes
             /\ UNCHANGED <<people, current_person_index, selected_dishes>>]_vars

\* C9: add_person(name) returns True and registers the person exactly when the
\* trimmed name is non-empty and not a key of people; otherwise it returns False
\* and changes nothing; names stay unique and people grows by at most one.
C9_AddPersonAcceptsExactlyValid ==
  [][\A name \in NameStrs :
       add_person(name) =>
         LET valid == Trimmed(name) # <<>> /\ Trimmed(name) \notin Keys(people)
         IN  /\ last'.ret = "True" <=> valid
             /\ valid => people' = Append(people, [name |-> Trimmed(name), total |-> Zero])
             /\ ~valid => people' = people
             /\ UNCHANGED <<dishes, current_person_index, selected_dishes>>
             /\ Len(people') <= Len(people) + 1
             /\ \A i, j \in DOMAIN people' : people'[i].name = people'[j].name => i = j]_vars

C9_Witness ==
  /\ last = Returned("add_person", "False")
  /\ Len(people) = 2
  /\ people[1].name # people[2].name

\* C10: no add_dish, add_person, toggle_dish_selection, advance_to_next_person or
\* calculate_bills call changes the price stored for a registered dish name.
C10_PriceFixedAtCreation ==
  [][last'.op # "reset" =>
       \A i \in DOMAIN dishes :
         \E j \in DOMAIN dishes' :
           dishes'[j].name = dishes[i].name /\ dishes'[j].price = dishes[i].price]_vars

C10_Witness ==
  /\ last = Returned("add_dish", "False")
  /\ Len(dishes) = 2
  /\ \E i \in DOMAIN dishes : dishes[i].price = FromInt(1) /\ Len(dishes[i].eaters) = 2
  /\ \E i \in DOMAIN people : people[i].total # Zero

\* C11: Dish.add_eater is idempotent: adding a name that is already an eater
\* leaves the eater list as it was, so the list never holds a name twice and its
\* length is the number of distinct names added.
C11_AddEaterIsIdempotent ==
  [][\A n \in EaterArgNames :
       AddEater(n) =>
         LET before == dishes[1].eaters
             after == dishes'[1].eaters
         IN  /\ n \in Range(before) => after = before
             /\ \A i, j \in DOMAIN after : after[i] = after[j] => i = j
             /\ Len(after) = Cardinality(Range(added'))]_vars

\* A name was added again: more calls than eaters.
C11_Witness ==
  /\ last.op = "add_eater"
  /\ Len(dishes[1].eaters) >= 2
  /\ Len(added) > Len(dishes[1].eaters)

RECURSIVE SumOfPrices(_, _)
SumOfPrices(ds, I) ==
  IF I = {} THEN Zero
  ELSE LET i == CHOOSE k \in I : TRUE
       IN  FAdd(SumOfPrices(ds, I \ {i}), ds[i].price)

\* The names that chars, a ", "-separated list, is made of; cur is the name read
\* so far.
RECURSIVE SplitNames(_, _)
SplitNames(chars, cur) ==
  IF chars = <<>> THEN {cur}
  ELSE IF Len(chars) >= 2 /\ chars[1] = "," /\ chars[2] = " "
    THEN {cur} \cup SplitNames(SubSeq(chars, 3, Len(chars)), <<>>)
  ELSE SplitNames(Tail(chars), Append(cur, Head(chars)))

\* C13: validate_bill_split tests in a fixed order: no dishes (even when there
\* are no people either), then no people, then the dishes without eaters, which
\* the message names exactly, then a difference of more than 0.01 between the
\* bill and the sum of the totals; otherwise it returns (True, ""). It changes
\* neither dishes nor people.
C13_ValidateChecksInOrder ==
  [][last'.op = "validate_bill_split" =>
       LET valid == last'.ret[1]
           msg == last'.ret[2]
           empty == { i \in DOMAIN dishes : Len(dishes[i].eaters) = 0 }
           diff == FAbs(FSub(SumOfPrices(dishes, DOMAIN dishes),
                             SumOfTotals(people, DOMAIN people)))
       IN  /\ dishes' = dishes
           /\ people' = people
           /\ IF dishes = <<>> THEN ~valid /\ msg = NoDishesMsg
              ELSE IF people = <<>> THEN ~valid /\ msg = NoPeopleMsg
              ELSE IF empty # {}
                THEN /\ ~valid
                     /\ Head(msg) = "Unassigned dishes: "
                     /\ SplitNames(Tail(msg), <<>>) = { dishes[i].name : i \in empty }
              ELSE IF FLess(Tolerance, diff)
                THEN ~valid /\ Head(msg) = "Total mismatch: Bill="
              ELSE valid /\ msg = <<>>]_vars

\* Neither dishes nor people: the failure is the one about the dishes.
C13_Witness ==
  /\ last.op = "validate_bill_split"
  /\ dishes = <<>>
  /\ people = <<>>
  /\ last.ret = <<FALSE, NoDishesMsg>>

\* The sum, over the dishes at positions I, of the part of the price that the
\* eaters among names are charged: price * (eaters among names) / len(eaters).
RECURSIVE ChargedSum(_, _, _)
ChargedSum(ds, I, names) ==
  IF I = {} THEN Zero
  ELSE LET i == CHOOSE k \in I : TRUE
           rest == ChargedSum(ds, I \ {i}, names)
           known == Cardinality(Range(ds[i].eaters) \cap names)
       IN  IF known = 0 THEN rest
           ELSE FAdd(rest, FDiv(FMulInt(ds[i].price, known), Len(ds[i].eaters)))

\* C14: when an eater list holds a name that is not a key of people,
\* calculate_bills completes, keeps the people it was given, charges nobody for
\* the share of that name, and charges every eater that is a key of people the
\* price divided by the full number of eaters.
C14_UnknownEaterIsSkipped ==
  [][(/\ last'.op = "calculate_bills"
      /\ calc_calls' = calc_calls + 1
      /\ \E i \in DOMAIN dishes : ~(Range(dishes[i].eaters) \subseteq Keys(people)))
       => /\ DOMAIN people' = DOMAIN people
          /\ \A i \in DOMAIN people :
               /\ people'[i].name = people[i].name
               /\ people'[i].total = ExpectedTotal(dishes, people[i].name)
          /\ SumOfTotals(people', DOMAIN people') =
               ChargedSum(dishes, DOMAIN dishes, Keys(people))]_vars

\* One dish of price 1 eaten by "z", who is not a person, and by "a", who is.
C14_Witness ==
  /\ last.op = "calculate_bills"
  /\ Len(dishes) = 1
  /\ dishes[1].price = FromInt(1)
  /\ dishes[1].eaters = << <<"z">>, <<"a">> >>
  /\ people = <<[name |-> <<"a">>, total |-> Norm(1, 2)]>>

\* C15: get_bill_summary returns one (name, total) pair for every person, in
\* insertion order, with the total as stored, and the sum of the dish prices;
\* it changes neither dishes nor people.
C15_SummaryIsAProjection ==
  [][last'.op = "get_bill_summary" =>
       /\ dishes' = dishes
       /\ people' = people
       /\ DOMAIN last'.ret[1] = DOMAIN people
       /\ \A i \in DOMAIN people :
            last'.ret[1][i] = <<people[i].name, people[i].total>>
       /\ last'.ret[2] = SumOfPrices(dishes, DOMAIN dishes)]_vars

\* A summary that reports a stored total of 7 that the dishes do not give.
C15_Witness ==
  /\ last.op = "get_bill_summary"
  /\ Len(people) = 2
  /\ ~TotalsDerived
  /\ last.ret[1][1][2] = FromInt(7)

C17_BackStepsToPreviousPerson ==
  [][\A pos \in ClickPoints :
       (collidepoint(back_button, pos) /\ UI_AssignOrders(pos)) =>
         /\ current_person_index' =
              IF current_person_index > 0 THEN current_person_index - 1 ELSE 0
         /\ selected_dishes' = <<>>]_vars


\* C18: in BillApp every name in every eaters list is a member of people, after
\* any sequence of events and redraws, and drawing the results never looks up
\* the total of a person who is not in people.
C18_EatersArePeople ==
  /\ \A i \in DOMAIN bill_eaters : Range(bill_eaters[i].eaters) \subseteq Range(bill_people)
  /\ crash # "KeyError totals"

\* C19: in BillApp every key of eaters is a key of menu, and no toggle of an
\* eater is applied to a dish that has no entry in eaters.
C19_EatersKeysAreDishes ==
  /\ Keys(bill_eaters) \subseteq Keys(menu)
  /\ crash # "KeyError eaters"

\* C20: BillApp.add_dish, given a dish name that is already a key of menu,
\* leaves menu unchanged.
C20_DuplicateDishIsRejected ==
  [][\A box \in BillDishBoxes :
       /\ Strip(box.name) \in Keys(menu)
       /\ \/ \E person_text \in BillPersonStrs :
                step = 1 /\ Bill_Enter(box.name, box.price, person_text)
          \/ \E pos \in BillClickPoints :
                clicked(buttons, 0, pos) /\ Bill_Step1(pos, box.name, box.price)
       => menu' = menu]_vars

\* C21: add_dish of final_chat.py and of the last BillSplitterApp of
\* final_claude.py, given a price text that parses to a negative number, leaves
\* dishes unchanged and does not clear the input boxes, so every registered
\* dish has a price >= 0.
C21_NegativePriceIsRejected ==
  [][\A name_text \in NameStrs, price_text \in PriceStrs :
       /\ Final_AddDish(name_text, price_text)
       /\ ParseFloat(Strip(price_text)).ok
       /\ FLess(ParseFloat(Strip(price_text)).val, Zero)
       => /\ dishes' = dishes
          /\ last'.ret = [name |-> name_text, price |-> price_text]
          /\ \A i \in DOMAIN dishes' : ~FLess(dishes'[i].price, Zero)]_vars

\* The attributes of a collector as InputCollector.__init__ leaves them; every
\* method of InputCollector reads and writes these four attributes only.
FreshCollector(ds, ppl, idx, sel) ==
  /\ ds = <<>>
  /\ ppl = <<>>
  /\ idx = 0
  /\ sel = <<>>

\* C22: after reset() the collector is in the state of a freshly constructed
\* one (no dish, person, eater, total, index or selection from before is
\* left), so what follows behaves as on a new InputCollector.
C22_ResetIsFresh ==
  [][last'.op = "reset"
       => FreshCollector(dishes', people', current_person_index', selected_dishes')]_vars

C22_Witness ==
  /\ last.op = "reset"
  /\ FreshCollector(dishes, people, current_person_index, selected_dishes)

\* What the collector holds once Pad Thai (120) and Tom Yum (90) are added in
\* this order, Alice then Bob are added, Alice has committed both dishes and Bob
\* Tom Yum, and calculate_bills has run since.
MealAssigned ==
  /\ dishes = <<[name |-> PadThai, price |-> FromInt(120), eaters |-> <<Alice>>],
                [name |-> TomYum, price |-> FromInt(90), eaters |-> <<Alice, Bob>>]>>
  /\ [i \in DOMAIN people |-> people[i].name] = <<Alice, Bob>>
  /\ calc_calls > 0

\* C23: the workflow with Pad Thai 120 and Tom Yum 90, Alice eating both and
\* Bob only Tom Yum, followed by calculate_bills, gives Alice 165, Bob 45, a
\* total bill of 210, and validate_bill_split returns (True, "").
C23_MealTotals ==
  MealAssigned =>
    /\ people[1].total = FromInt(165)
    /\ people[2].total = FromInt(45)
    /\ get_total_bill(dishes) = FromInt(210)
    /\ validate_bill_split(dishes, people) = <<TRUE, <<>>>>

C23_Witness ==
  /\ MealAssigned
  /\ current_person_index = 2
  /\ selected_dishes = <<>>
  /\ people[1].total = FromInt(165)
  /\ people[2].total = FromInt(45)
  /\ last = Returned("validate_bill_split", <<TRUE, <<>>>>)

\* C24: in UIManager, whenever the state is STATE_ASSIGN_ORDERS there is at
\* least one dish and one person and 0 <= current_person_index < len(people)
\* (get_current_person() is not None), and advance_to_next_person, the only
\* step that adds one to the index, is never taken when the index is already
\* past the last person.
C24_AssignScreenHasCurrentPerson ==
  /\ [](state = "ASSIGN_ORDERS"
          => /\ has_dishes(dishes)
             /\ has_people(people)
             /\ has_current_person(people, current_person_index))
  /\ [][current_person_index' = current_person_index + 1
          => current_person_index < Len(people)]_vars

C24_Witness ==
  /\ state = "ASSIGN_ORDERS"
  /\ Len(people) = 2
  /\ current_person_index = 1
  /\ \E i \in DOMAIN dishes : dishes[i].eaters # <<>>

\* C25: in UIManager, calculate_bills runs after the commit of the last person
\* and before save_bill_to_file: the totals written to the file, and the totals
\* held whenever the state is STATE_FILE_SAVED, are for every person the sum of
\* the shared prices of the dishes that person is an eater of; and in that
\* state only a restart changes dishes, people or totals.
C25_SavedTotalsAreDerived ==
  /\ [](state = "FILE_SAVED" => TotalsDerived)
  /\ [](last.op = "save_bill_to_file"
          => last.ret.amounts =
               [i \in DOMAIN people |->
                  <<people[i].name, ExpectedTotal(dishes, people[i].name)>>])
  /\ [][state = "FILE_SAVED"
          => \/ UNCHANGED <<dishes, people>>
             \/ state' = "MENU" /\ dishes' = <<>> /\ people' = <<>>]_vars

C25_Witness ==
  /\ state = "FILE_SAVED"
  /\ last.op = "save_bill_to_file"
  /\ Len(people) = 2
  /\ \A i \in DOMAIN people : people[i].total = Norm(1, 2)

\* C26: from current_person_index 0 with n >= 1 people and people not changed
\* otherwise, the k-th call of advance_to_next_person (k <= n) is made with the
\* k-th person in insertion order as the current person and commits the
\* selection to that person and to no one else; calls 1 to n-1 return True and
\* call n returns False, leaving the index at n.
C26_AdvanceVisitsPeopleInOrder ==
  [][(last'.op = "advance_to_next_person" /\ current_person_index < Len(people)) =>
       LET k == current_person_index + 1
       IN  /\ get_current_person(people, current_person_index) = people[k]
           /\ current_person_index' = k
           /\ last'.ret = IF k < Len(people) THEN "True" ELSE "False"
           /\ people' = people
           /\ \A i \in DOMAIN dishes :
                IF dishes[i].name \in Range(selected_dishes)
                  THEN Range(dishes'[i].eaters) =
                         Range(dishes[i].eaters) \cup {people[k].name}
                  ELSE dishes'[i].eaters = dishes[i].eaters]_vars

C26_Witness ==
  /\ last = Returned("advance_to_next_person", "False")
  /\ Len(people) = 3
  /\ current_person_index = 3
  /\ dishes[1].eaters = <<people[1].name, people[3].name>>
  /\ dishes[2].eaters = <<people[2].name>>

\* C27: when people is not empty and 0 <= current_person_index < len(people),
\* is_last_person() is True exactly when the call of advance_to_next_person
\* made next returns False.
C27_LastPersonIffAdvanceEnds ==
  [][(/\ last'.op = "advance_to_next_person"
      /\ people # <<>>
      /\ has_current_person(people, current_person_index)) =>
       (is_last_person(people, current_person_index) <=> last'.ret = "False")]_vars

C27_Witness ==
  /\ last = Returned("advance_to_next_person", "False")
  /\ Len(people) = 2
  /\ current_person_index = Len(people)
  /\ is_last_person(people, current_person_index - 1)
  /\ ~is_last_person(people, current_person_index - 2)

\* C28 as amended: when all dish prices are >= 0, after calculate_bills every
\* person's total is >= 0 and a person who is an eater of no dish has total 0
\* (nothing is said of the sum of the totals, which is rounded).
PricesNonNegative(ds) == \A i \in DOMAIN ds : ~F64Less(ds[i].price, F64Zero)

EatsNothing(ds, name) == \A i \in DOMAIN ds : name \notin Range(ds[i].eaters)

C28_TotalsNonNegative ==
  (last.op = "calculate_bills" /\ PricesNonNegative(dishes)) =>
    /\ \A p \in DOMAIN people : ~F64Less(people[p].total, F64Zero)
    /\ \A p \in DOMAIN people :
         EatsNothing(dishes, people[p].name) => people[p].total = F64Zero

C28_Witness ==
  /\ last.op = "calculate_bills"
  /\ PricesNonNegative(dishes)
  /\ EatsNothing(dishes, people[1].name) /\ people[1].total = F64Zero
  /\ \E p \in DOMAIN people : F64Less(F64Zero, people[p].total)
  /\ \E i \in DOMAIN dishes : Len(dishes[i].eaters) = 2

\* C28 as stated: when all dish prices are >= 0, after calculate_bills every
\* person's total is >= 0, a person who is an eater of no dish has total 0, the
\* sum of all totals never exceeds get_total_bill(dishes), and the sum is
\* strictly smaller exactly when some dish with positive price has no eaters or
\* has an eater who is not in people.
SomeShareUnpaid(ds, ppl) ==
  \E i \in DOMAIN ds :
    /\ F64Less(F64Zero, ds[i].price)
    /\ \/ ds[i].eaters = <<>>
       \/ \E j \in DOMAIN ds[i].eaters : ds[i].eaters[j] \notin Keys(ppl)

C28_TotalsWithinBill ==
  (last.op = "calculate_bills" /\ PricesNonNegative(dishes)) =>
    /\ \A p \in DOMAIN people : ~F64Less(people[p].total, F64Zero)
    /\ \A p \in DOMAIN people :
         EatsNothing(dishes, people[p].name) => people[p].total = F64Zero
    /\ ~F64Less(F64_get_total_bill(dishes), F64_total_paid(people))
    /\ F64Less(F64_total_paid(people), F64_get_total_bill(dishes))
         <=> SomeShareUnpaid(dishes, people)

\* C29: in BillApp, after any clicks and redraws in step 2, a click on a
\* delete-person button only removes a name that is in people: the handler
\* never calls people.remove on a name that is absent (which raises ValueError
\* and ends the application).
C29_DeleteRemovesOnlyPresentNames == crash # "ValueError"

\* C30: toggle_dish_selection flips membership: for an existing dish name, one
\* call adds it to selected_dishes if absent and removes it if present, two
\* consecutive calls with the same name restore the previous selection, other
\* names in the selection are untouched, and selected_dishes never contains a
\* name twice.
Selected(sel) == { sel[i] : i \in DOMAIN sel }

NoNameTwice(sel) == \A i, j \in DOMAIN sel : sel[i] = sel[j] => i = j

Others(sel, dish_name) == SelectSeq(sel, LAMBDA x : x # dish_name)

C30_ToggleFlipsMembership ==
  /\ [](NoNameTwice(selected_dishes))
  /\ [](\A dish_name \in ToggleStrs \cap Keys(dishes) :
          LET once == toggled_selection(selected_dishes, dish_name)
              twice == toggled_selection(once, dish_name)
          IN  /\ (dish_name \in Selected(once)) <=> (dish_name \notin Selected(selected_dishes))
              /\ Selected(twice) = Selected(selected_dishes)
              /\ NoNameTwice(once) /\ NoNameTwice(twice))
  /\ [][\A dish_name \in ToggleStrs \cap Keys(dishes) :
          toggle_dish_selection(dish_name) =>
            /\ Selected(selected_dishes') =
                 IF dish_name \in Selected(selected_dishes)
                   THEN Selected(selected_dishes) \ {dish_name}
                   ELSE Selected(selected_dishes) \cup {dish_name}
            /\ Others(selected_dishes', dish_name) = Others(selected_dishes, dish_name)]_vars

C30_Witness ==
  /\ last.op = "toggle_dish_selection"
  /\ Len(selected_dishes) = 2
  /\ Selected(selected_dishes) \subseteq Keys(dishes)
  /\ selected_dishes[2] \in Selected(toggled_selection(toggled_selection(selected_dishes,
                                                                          selected_dishes[1]),
                                                       selected_dishes[1]))
  /\ toggled_selection(selected_dishes, selected_dishes[1]) = <<selected_dishes[2]>>

====
